---- MODULE Spec2Model ----
(***************************************************************************)
(* pytorch_lightning/core/decorators.py: the two decorators around the     *)
(* "move model to device" method, parameter_validation and                 *)
(* auto_weight_tying, with the helpers find_shared_parameters,             *)
(* apply_weight_tying, _get_module_by_path and _set_module_by_path.        *)
(*                                                                         *)
(* A module is a record [cls, params, mods]: params is the ordered         *)
(* dictionary module._parameters, a sequence of [name, param], and mods is *)
(* module._modules, a sequence of [name, m].  A parameter object is known  *)
(* by its identity, a positive number; None is 0.  An attribute name and a *)
(* path are Python strings, modelled as sequences of characters, so that   *)
(* prefix + "." + name and path.split(".") are computed, not assumed.      *)
(***************************************************************************)
EXTENDS Naturals, Sequences, FiniteSets

VARIABLES model, call

vars == <<model, call>>

(* ------------------------------------------------------------------ *)
(* Bounds of the model.                                               *)
(* ------------------------------------------------------------------ *)

\* Initial parameter slots hold None or one of the objects 1..MaxInitObj.
MaxInitObj == 2

(* ------------------------------------------------------------------ *)
(* Values.                                                            *)
(* ------------------------------------------------------------------ *)

\* "param is None" / "m is None".
None == 0

Dot == "."

NameW == <<"w">>
NameV == <<"v">>
NameA == <<"a">>
NameB == <<"b">>
\* The attribute under which LightningDistributedModule keeps the wrapped module.
NameModule == <<"m", "o", "d", "u", "l", "e">>

LightningDistributedModule == "LightningDistributedModule"
LightningModule == "LightningModule"

\* An absent child (module._modules[name] is None).
NoneModule == [cls |-> "NoneType", params |-> <<>>, mods |-> <<>>]

Slot(name, param) == [name |-> name, param |-> param]
Child(name, m) == [name |-> name, m |-> m]
Module(cls, params, mods) == [cls |-> cls, params |-> params, mods |-> mods]

\* What an attribute lookup yields: a parameter object, a module, None, or the
\* AttributeError it raises.
ParamVal(p) == [kind |-> "param", param |-> p, m |-> NoneModule]
ModuleVal(m) == [kind |-> "module", param |-> None, m |-> m]
NoneVal == [kind |-> "none", param |-> None, m |-> NoneModule]
AttributeError == [kind |-> "AttributeError", param |-> None, m |-> NoneModule]

IndexOf(seq, x) == CHOOSE i \in DOMAIN seq : seq[i] = x

IndexOfName(entries, name) == CHOOSE i \in DOMAIN entries : entries[i].name = name

HasName(entries, name) == \E i \in DOMAIN entries : entries[i].name = name

(* ------------------------------------------------------------------ *)
(* Strings.                                                           *)
(* ------------------------------------------------------------------ *)

\* prefix + ("." if prefix else "") + name
PathJoin(prefix, name) == prefix \o (IF prefix # <<>> THEN <<Dot>> ELSE <<>>) \o name

\* path.split("."): the pieces between the dots; "" splits into [""].
RECURSIVE SplitFrom(_, _, _)
SplitFrom(path, i, piece) ==
    IF i > Len(path) THEN <<piece>>
    ELSE IF path[i] = Dot THEN <<piece>> \o SplitFrom(path, i + 1, <<>>)
    ELSE SplitFrom(path, i + 1, Append(piece, path[i]))

Split(path) == SplitFrom(path, 1, <<>>)

(* ------------------------------------------------------------------ *)
(* find_shared_parameters                                             *)
(* ------------------------------------------------------------------ *)

\* tied_parameters is a dict in insertion order: a sequence of [param, paths].
\*     if param not in tied_parameters: tied_parameters[param] = []
\*     tied_parameters[param].append(param_prefix)
TiedAppend(tied_parameters, param, param_prefix) ==
    IF \E i \in DOMAIN tied_parameters : tied_parameters[i].param = param
    THEN LET i == CHOOSE j \in DOMAIN tied_parameters : tied_parameters[j].param = param
         IN [tied_parameters EXCEPT ![i].paths = Append(@, param_prefix)]
    ELSE Append(tied_parameters, [param |-> param, paths |-> <<param_prefix>>])

\* for name, param in module._parameters.items(): from the i-th item on.
RECURSIVE WalkParameters(_, _, _, _)
WalkParameters(params, i, tied_parameters, prefix) ==
    IF i > Len(params) THEN tied_parameters
    ELSE IF params[i].param = None
         THEN WalkParameters(params, i + 1, tied_parameters, prefix)
         ELSE WalkParameters(params, i + 1,
                  TiedAppend(tied_parameters, params[i].param,
                             PathJoin(prefix, params[i].name)),
                  prefix)

\* The body of find_shared_parameters on a given dict: the module's own
\* parameters, then each child that is not None, in _modules order.
RECURSIVE WalkModule(_, _, _), WalkModules(_, _, _, _)
WalkModule(module, tied_parameters, prefix) ==
    WalkModules(module.mods, 1,
                WalkParameters(module.params, 1, tied_parameters, prefix), prefix)

WalkModules(mods, i, tied_parameters, prefix) ==
    IF i > Len(mods) THEN tied_parameters
    ELSE IF mods[i].m = NoneModule
         THEN WalkModules(mods, i + 1, tied_parameters, prefix)
         ELSE WalkModules(mods, i + 1,
                  WalkModule(mods[i].m, tied_parameters, PathJoin(prefix, mods[i].name)),
                  prefix)

SharedOnly_KeepSingles(tied_parameters) ==
    LET kept == SelectSeq(tied_parameters, LAMBDA e : Len(e.paths) >= 1)
    IN [i \in DOMAIN kept |-> kept[i].paths]

\* return [x for x in tied_parameters.values() if len(x) > 1]
SharedOnly(tied_parameters) ==
    LET kept == SelectSeq(tied_parameters, LAMBDA e : Len(e.paths) > 1)
    IN [i \in DOMAIN kept |-> kept[i].paths]

find_shared_parameters(module) == SharedOnly(WalkModule(module, <<>>, <<>>))

(* ------------------------------------------------------------------ *)
(* Attribute access on the module tree.                               *)
(* ------------------------------------------------------------------ *)

getattr_Default(obj, name) ==
    IF obj.kind # "module" THEN NoneVal
    ELSE IF HasName(obj.m.params, name)
         THEN LET p == obj.m.params[IndexOfName(obj.m.params, name)].param
              IN IF p = None THEN NoneVal ELSE ParamVal(p)
    ELSE IF HasName(obj.m.mods, name)
         THEN LET c == obj.m.mods[IndexOfName(obj.m.mods, name)].m
              IN IF c = NoneModule THEN NoneVal ELSE ModuleVal(c)
    ELSE NoneVal

\* getattr(obj, name).  A module finds the name among its parameters, then
\* among its children; None and a parameter object have none of the model's
\* names, and looking one up on them raises AttributeError, as does a module
\* that knows no such name.
getattr(obj, name) ==
    IF obj.kind # "module" THEN AttributeError
    ELSE IF HasName(obj.m.params, name)
         THEN LET p == obj.m.params[IndexOfName(obj.m.params, name)].param
              IN IF p = None THEN NoneVal ELSE ParamVal(p)
    ELSE IF HasName(obj.m.mods, name)
         THEN LET c == obj.m.mods[IndexOfName(obj.m.mods, name)].m
              IN IF c = NoneModule THEN NoneVal ELSE ModuleVal(c)
    ELSE AttributeError

\* setattr(module, name, value) on a module, value a parameter object or None.
\* An existing parameter slot is rebound.  A parameter object under an unknown
\* name is registered as a new slot at the end of module._parameters; None
\* under an unknown name becomes a plain attribute, which is no parameter slot
\* and which nothing here reads again.  It never raises.
setattr(module, name, value) ==
    IF HasName(module.params, name)
    THEN [module EXCEPT !.params[IndexOfName(module.params, name)].param = value.param]
    ELSE IF value.kind = "param"
    THEN [module EXCEPT !.params = Append(@, Slot(name, value.param))]
    ELSE module

\* for name in path: module = getattr(module, name)
RECURSIVE GetAlong(_, _, _)
GetAlong(obj, names, i) ==
    IF i > Len(names) THEN obj
    ELSE GetAlong(getattr(obj, names[i]), names, i + 1)

get_module_by_path(module, path) == GetAlong(ModuleVal(module), Split(path), 1)

\* for name in path[:-1]: module = getattr(module, name)
\* setattr(module, path[-1], value)
\* The modules are mutated in place: the result is the root with the owner of
\* the slot changed, or raised when a getattr on the way (or the setattr on
\* something that is no module) raises AttributeError.
RECURSIVE SetAlong(_, _, _, _)
SetAlong(module, names, i, value) ==
    IF i = Len(names)
    THEN [raised |-> FALSE, module |-> setattr(module, names[i], value)]
    ELSE LET child == getattr(ModuleVal(module), names[i])
         IN IF child.kind # "module"
            THEN [raised |-> TRUE, module |-> module]
            ELSE LET r == SetAlong(child.m, names, i + 1, value)
                 IN [raised |-> r.raised,
                     module |-> [module EXCEPT
                         !.mods[IndexOfName(module.mods, names[i])].m = r.module]]

set_module_by_path(module, path, value) == SetAlong(module, Split(path), 1, value)

(* ------------------------------------------------------------------ *)
(* apply_weight_tying                                                 *)
(* ------------------------------------------------------------------ *)

\* for path in shared_param[1:]: _set_module_by_path(module, path, ref)
RECURSIVE TiePaths(_, _, _, _)
TiePaths(module, shared_param, j, ref) ==
    IF j > Len(shared_param) THEN [raised |-> FALSE, module |-> module]
    ELSE LET r == set_module_by_path(module, shared_param[j], ref)
         IN IF r.raised THEN r ELSE TiePaths(r.module, shared_param, j + 1, ref)

RECURSIVE TieGroups_LastRef(_, _, _)
TieGroups_LastRef(module, shared_params, g) ==
    IF g > Len(shared_params) THEN [raised |-> FALSE, module |-> module]
    ELSE LET n == Len(shared_params[g])
             ref == get_module_by_path(module, shared_params[g][n])
         IN IF ref.kind = "AttributeError"
            THEN [raised |-> TRUE, module |-> module]
            ELSE LET r == TiePaths(module, SubSeq(shared_params[g], 1, n - 1), 1, ref)
                 IN IF r.raised THEN r
                    ELSE TieGroups_LastRef(r.module, shared_params, g + 1)

\* for shared_param in shared_params: ref = _get_module_by_path(...); ...
RECURSIVE TieGroups(_, _, _)
TieGroups(module, shared_params, g) ==
    IF g > Len(shared_params) THEN [raised |-> FALSE, module |-> module]
    ELSE LET ref == get_module_by_path(module, shared_params[g][1])
         IN IF ref.kind = "AttributeError"
            THEN [raised |-> TRUE, module |-> module]
            ELSE LET r == TiePaths(module, shared_params[g], 2, ref)
                 IN IF r.raised THEN r ELSE TieGroups(r.module, shared_params, g + 1)

\* The module after the loops (it is the object passed in, changed in place),
\* or the AttributeError that ended them early.
apply_weight_tying(module, shared_params) == TieGroups(module, shared_params, 1)

(* ------------------------------------------------------------------ *)
(* The module tree as the collaborators see it.                       *)
(* ------------------------------------------------------------------ *)

\* Every parameter slot of the tree (empty ones too) as [path, param], a
\* module's own slots before those of its children.
RECURSIVE Slots(_, _), ChildSlots(_, _, _)
Slots(module, prefix) ==
    [i \in DOMAIN module.params |->
        [path |-> PathJoin(prefix, module.params[i].name),
         param |-> module.params[i].param]]
    \o ChildSlots(module.mods, 1, prefix)

ChildSlots(mods, i, prefix) ==
    IF i > Len(mods) THEN <<>>
    ELSE Slots(mods[i].m, PathJoin(prefix, mods[i].name)) \o ChildSlots(mods, i + 1, prefix)

\* The paths of the child modules of the tree that are not None.
RECURSIVE ChildPaths(_, _)
ChildPaths(module, prefix) ==
    UNION {{PathJoin(prefix, module.mods[i].name)}
             \cup ChildPaths(module.mods[i].m, PathJoin(prefix, module.mods[i].name))
           : i \in {j \in DOMAIN module.mods : module.mods[j].m # NoneModule}}

SlotPaths(module) == {Slots(module, <<>>)[i].path : i \in DOMAIN Slots(module, <<>>)}

FilledPaths(module) ==
    {Slots(module, <<>>)[i].path :
        i \in {j \in DOMAIN Slots(module, <<>>) : Slots(module, <<>>)[j].param # None}}

\* The parameter objects the tree references.
ParamObjects(module) ==
    {Slots(module, <<>>)[i].param : i \in DOMAIN Slots(module, <<>>)} \ {None}

\* len(list(self.model.parameters())): parameters() yields each parameter
\* object of the tree once, however many slots reference it.
parameters_count(module) == Cardinality(ParamObjects(module))

\* The tree without the slots and children at the given paths, and with the
\* slots in the domain of assign holding what assign gives them.
RECURSIVE Rebuild(_, _, _, _, _)
Rebuild(module, prefix, dropSlots, dropChildren, assign) ==
    LET params == SelectSeq(module.params,
                            LAMBDA s : PathJoin(prefix, s.name) \notin dropSlots)
        mods == SelectSeq(module.mods,
                          LAMBDA c : PathJoin(prefix, c.name) \notin dropChildren)
    IN [cls |-> module.cls,
        params |-> [i \in DOMAIN params |->
            Slot(params[i].name,
                 IF PathJoin(prefix, params[i].name) \in DOMAIN assign
                 THEN assign[PathJoin(prefix, params[i].name)]
                 ELSE params[i].param)],
        mods |-> [i \in DOMAIN mods |->
            Child(mods[i].name,
                  IF mods[i].m = NoneModule THEN NoneModule
                  ELSE Rebuild(mods[i].m, PathJoin(prefix, mods[i].name),
                               dropSlots, dropChildren, assign))]]

\* isinstance(m, LightningDistributedModule)
IsWrapped(m) == m.cls = LightningDistributedModule

\* LightningDistributedModule(m): a module whose only child, "module", is m.
Wrap(m) == Module(LightningDistributedModule, <<>>, <<Child(NameModule, m)>>)

(* ------------------------------------------------------------------ *)
(* The collaborators: the wrapped move and the model's hook.          *)
(* ------------------------------------------------------------------ *)

Max(S) == CHOOSE x \in S : \A y \in S : y <= x

EmptyAssign == [q \in {} |-> None]

\* The slots at the paths in fresh get new parameter objects, each distinct
\* from the others and from every object of the tree.
FreshAssign(m, fresh) ==
    LET all == Slots(m, <<>>)
        order == SelectSeq([i \in DOMAIN all |-> all[i].path], LAMBDA q : q \in fresh)
        base == Max(ParamObjects(m) \cup {0})
    IN [q \in fresh |-> base + IndexOf(order, q)]

\* What a move may do to self.model.  It replaces the objects of the slots in
\* mv.fresh by new ones, and then keeps the tree as it is ("keep"), assigns
\* self.model the tree wrapped for distributed training ("wrap"), or changes
\* the shape: deletes the slot ("drop_slot") or the child ("drop_child") at
\* mv.target.  mv.result is the value it returns, or "raise" when it fails
\* (after doing the above).
MoveResults == {"None", "self.model", "raise"}

Move(kind, fresh, target, result) ==
    [kind |-> kind, fresh |-> fresh, target |-> target, result |-> result]

NoMove == Move("none", {}, <<>>, "None")

Moves(m) ==
    LET filled == FilledPaths(m)
        inner == IF IsWrapped(m) THEN {NameModule} ELSE {}
    IN {Move("keep", f, <<>>, r) : f \in SUBSET filled, r \in MoveResults}
       \cup {Move("wrap", f, <<>>, r) :
                f \in (IF IsWrapped(m) THEN {} ELSE {{}, filled}), r \in MoveResults}
       \cup {Move("drop_slot", f, t, r) :
                f \in {{}, filled}, t \in SlotPaths(m), r \in MoveResults}
       \cup {Move("drop_child", f, t, r) :
                f \in {{}, filled}, t \in ChildPaths(m, <<>>) \ inner, r \in MoveResults}

\* self.model after the move.
MoveEffect(m, mv) ==
    LET refreshed == Rebuild(m, <<>>, {}, {}, FreshAssign(m, mv.fresh))
    IN CASE mv.kind = "wrap" -> Wrap(refreshed)
         [] mv.kind = "drop_slot" -> Rebuild(refreshed, <<>>, {mv.target}, {}, EmptyAssign)
         [] mv.kind = "drop_child" -> Rebuild(refreshed, <<>>, {}, {mv.target}, EmptyAssign)
         [] OTHER -> refreshed

\* The model's on_post_move_to_device: the default does nothing ("noop"); a
\* model may override it to tie weights by hand, binding the slot at dst to the
\* object at src ("tie"), and an override may fail ("raise").
Hook(kind, src, dst) == [kind |-> kind, src |-> src, dst |-> dst]

NoHook == Hook("none", <<>>, <<>>)

Hooks(m) ==
    LET all == Slots(m, <<>>)
        pairs == {ij \in (DOMAIN all) \X (DOMAIN all) :
                     /\ ij[1] < ij[2]
                     /\ all[ij[1]].param # None
                     /\ all[ij[2]].param # None
                     /\ all[ij[1]].param # all[ij[2]].param}
    IN {Hook("noop", <<>>, <<>>), Hook("raise", <<>>, <<>>)}
       \cup {Hook("tie", all[ij[1]].path, all[ij[2]].path) : ij \in pairs}

on_post_move_to_device(m, hook) ==
    IF hook.kind = "tie"
    THEN [raised |-> FALSE,
          module |-> set_module_by_path(m, hook.dst, get_module_by_path(m, hook.src)).module]
    ELSE [raised |-> hook.kind = "raise", module |-> m]

(* ------------------------------------------------------------------ *)
(* The record of a call of a decorated model_to_device.               *)
(* ------------------------------------------------------------------ *)

\* fn: the decorator; pre: self.model when the call began; mv, hook: what the
\* collaborators did; moved: self.model when the move ended; post: self.model
\* when the call ended; outcome: "returned" with the value ret, or "raised"
\* with the exception exc; events: the steps taken, in order; warnings: the
\* diagnostics handed to rank_zero_warn.
Call(fn, pre, mv, hook, moved, post, shared_params, outcome, ret, exc, events, warnings, pre_layer_count, post_layer_count) ==
    [fn |-> fn, pre |-> pre, mv |-> mv, hook |-> hook, moved |-> moved, post |-> post,
     shared_params |-> shared_params, outcome |-> outcome, ret |-> ret, exc |-> exc,
     events |-> events, warnings |-> warnings,
     pre_layer_count |-> pre_layer_count, post_layer_count |-> post_layer_count]

NoCall(m) ==
    Call("none", m, NoMove, NoHook, m, m, <<>>, "none", "None", "none", <<>>, <<>>, 0, 0)

(* ------------------------------------------------------------------ *)
(* parameter_validation                                               *)
(* ------------------------------------------------------------------ *)

MoveRaises_Swallowed(mv) == FALSE

\* fn(self, *args, **kwargs) / model_to_device(self, *args, **kwargs) is called
\* bare: when it raises, the exception leaves inner_fn at once.
MoveRaises(mv) == mv.result = "raise"

FnResult_SelfModel(mv) == "self.model"

\* module = fn(self, *args, **kwargs) ... return module
FnResult(mv) == mv.result

RankZeroWarn_Inverted(pre_layer_count, post_layer_count) ==
    IF pre_layer_count = post_layer_count
    THEN <<[before |-> pre_layer_count, after |-> post_layer_count]>>
    ELSE <<>>

\* if not pre_layer_count == post_layer_count: rank_zero_warn(
\*     f"... Layer count: [Before: {pre_layer_count} After: {post_layer_count}]")
\* The diagnostics handed to rank_zero_warn, each known by the two counts in it.
RankZeroWarn(pre_layer_count, post_layer_count) ==
    IF ~(pre_layer_count = post_layer_count)
    THEN <<[before |-> pre_layer_count, after |-> post_layer_count]>>
    ELSE <<>>

\* inner_fn of parameter_validation(fn), fn the move mv, on self.model = m.
parameter_validation(m, mv, hook) ==
    LET pre_layer_count == parameters_count(m)
        moved == MoveEffect(m, mv)
        hooked == on_post_move_to_device(moved, hook)
        post_layer_count == parameters_count(hooked.module)
        warnings == RankZeroWarn(pre_layer_count, post_layer_count)
    IN IF MoveRaises(mv)
       THEN Call("parameter_validation", m, mv, NoHook, moved, moved, <<>>,
                 "raised", "None", "MoveError", <<"count", "fn">>, <<>>,
                 pre_layer_count, 0)
       ELSE IF hooked.raised
       THEN Call("parameter_validation", m, mv, hook, moved, hooked.module, <<>>,
                 "raised", "None", "HookError", <<"count", "fn", "hook">>, <<>>,
                 pre_layer_count, 0)
       ELSE Call("parameter_validation", m, mv, hook, moved, hooked.module, <<>>,
                 "returned", FnResult(mv), "none",
                 <<"count", "fn", "hook", "count">>
                     \o [i \in DOMAIN warnings |-> "rank_zero_warn"],
                 warnings, pre_layer_count, post_layer_count)

(* ------------------------------------------------------------------ *)
(* auto_weight_tying                                                  *)
(* ------------------------------------------------------------------ *)

\* self.model.module if isinstance(self.model, LightningDistributedModule)
\* else self.model
Unwrapped(m) == IF IsWrapped(m) THEN getattr(ModuleVal(m), NameModule).m ELSE m

\* self.model once the module it holds (or is) has been changed in place.
SelfModelWith(m, module) ==
    IF IsWrapped(m)
    THEN [m EXCEPT !.mods[IndexOfName(m.mods, NameModule)].m = module]
    ELSE module

TiedModule_SelfModel(moved) == "self.model"

\* module = self.model.module if isinstance(...) else self.model
\* module = apply_weight_tying(module, shared_params); return module
\* The object inner_fn returns: the module it tied.
TiedModule(moved) == IF IsWrapped(moved) THEN "self.model.module" ELSE "self.model"

\* inner_fn of auto_weight_tying(model_to_device), model_to_device the move mv,
\* on self.model = m.  What the move returns is dropped.
auto_weight_tying(m, mv) ==
    LET shared_params == find_shared_parameters(m)
        moved == MoveEffect(m, mv)
        tied == apply_weight_tying(Unwrapped(moved), shared_params)
    IN IF MoveRaises(mv)
       THEN Call("auto_weight_tying", m, mv, NoHook, moved, moved, shared_params,
                 "raised", "None", "MoveError", <<"find", "fn">>, <<>>, 0, 0)
       ELSE IF tied.raised
       THEN Call("auto_weight_tying", m, mv, NoHook, moved,
                 SelfModelWith(moved, tied.module), shared_params,
                 "raised", "None", "AttributeError", <<"find", "fn", "tie">>, <<>>, 0, 0)
       ELSE Call("auto_weight_tying", m, mv, NoHook, moved,
                 SelfModelWith(moved, tied.module), shared_params,
                 "returned", TiedModule(moved), "none", <<"find", "fn", "tie">>, <<>>, 0, 0)

(* ------------------------------------------------------------------ *)
(* The state machine.                                                 *)
(* ------------------------------------------------------------------ *)

\* The parameter objects of the tree in the order the walk first meets them.
RECURSIVE FirstSeen(_, _, _)
FirstSeen(all, i, seen) ==
    IF i > Len(all) THEN seen
    ELSE IF all[i].param = None \/ \E k \in DOMAIN seen : seen[k] = all[i].param
         THEN FirstSeen(all, i + 1, seen)
         ELSE FirstSeen(all, i + 1, Append(seen, all[i].param))

\* Nothing but the identity of a parameter object is observed, so between
\* calls the objects of self.model are named 1, 2, ... in the order the walk
\* first meets them.
Renumber(m) ==
    LET all == Slots(m, <<>>)
        seen == FirstSeen(all, 1, <<>>)
        filled == {i \in DOMAIN all : all[i].param # None}
    IN Rebuild(m, <<>>, {}, {},
               [q \in {all[i].path : i \in filled} |->
                   IndexOf(seen, all[CHOOSE i \in filled : all[i].path = q].param)])

\* The model definitions the calls start from: a root with two slots and a
\* child named "module" with two more (and a child that is None), and a chain
\* of three modules; every slot empty or holding one of MaxInitObj objects.
ShapeWide(p) ==
    Module(LightningModule, <<Slot(NameW, p[1]), Slot(NameV, p[2])>>,
           <<Child(NameModule, Module("Linear", <<Slot(NameW, p[3]), Slot(NameV, p[4])>>, <<>>)),
             Child(NameB, NoneModule)>>)

ShapeDeep(p) ==
    Module(LightningModule, <<Slot(NameW, p[1])>>,
           <<Child(NameA, Module("Block", <<Slot(NameW, p[2])>>,
                <<Child(NameB, Module("Linear", <<Slot(NameW, p[3]), Slot(NameV, p[4])>>,
                                      <<>>))>>))>>)

BareModels ==
    LET ps == [1..4 -> 0..MaxInitObj]
    IN {ShapeWide(p) : p \in ps} \cup {ShapeDeep(p) : p \in ps}

\* self.model is the model itself, or already holds it wrapped.
Init ==
    /\ \/ model \in BareModels
       \/ model \in {Wrap(m) : m \in BareModels}
    /\ call = NoCall(model)

\* A call of the decorated method starts when no call is under way; its
\* record stays until the caller lets go of it.
AutoWeightTyingCall ==
    /\ call.fn = "none"
    /\ \E mv \in Moves(model) :
        /\ call' = auto_weight_tying(model, mv)
        /\ model' = call'.post

ParameterValidationCall ==
    /\ call.fn = "none"
    /\ \E mv \in Moves(model) :
        \E hook \in Hooks(MoveEffect(model, mv)) :
            /\ call' = parameter_validation(model, mv, hook)
            /\ model' = call'.post

\* The call is over: its locals (the counts, shared_params, the result) are
\* dropped, and nothing of it is left but self.model.
Discard ==
    /\ call.fn # "none"
    /\ model' = Renumber(model)
    /\ call' = NoCall(model')

Next == AutoWeightTyingCall \/ ParameterValidationCall \/ Discard

Spec == Init /\ [][Next]_vars

(* ------------------------------------------------------------------ *)
(* What the properties speak of.                                      *)
(* ------------------------------------------------------------------ *)

TieCall == call.fn = "auto_weight_tying"

GuardCall == call.fn = "parameter_validation"

MoveFailed == call.mv.result = "raise"

HasSlot(m, path) == path \in SlotPaths(m)

\* The object the slot at path holds (None when it is empty).
ParamAt(m, path) ==
    LET all == Slots(m, <<>>)
    IN all[CHOOSE i \in DOMAIN all : all[i].path = path].param

\* The same, None also when there is no such slot.
ValueAt(m, path) == IF HasSlot(m, path) THEN ParamAt(m, path) ELSE None

\* The position of the slot in the depth-first walk.
VisitOf(m, path) ==
    LET all == Slots(m, <<>>)
    IN CHOOSE i \in DOMAIN all : all[i].path = path

\* Where the slot that had the path on self.model before the move is on
\* self.model after it: under "module" when the move wrapped the model.
PathAfterMove(path) ==
    IF ~IsWrapped(call.pre) /\ IsWrapped(call.moved)
    THEN PathJoin(NameModule, path)
    ELSE path

\* The paths of all the groups but the first of each.
NonFirstPaths(groups) ==
    UNION {{groups[g][k] : k \in (DOMAIN groups[g]) \ {1}} : g \in DOMAIN groups}

\* path without its last name: the path of the module owning the slot.
OwnerPath(path) ==
    LET names == Split(path)
    IN IF Len(names) = 1 THEN <<>>
       ELSE SubSeq(path, 1, Len(path) - Len(names[Len(names)]) - 1)

\* groups is the list of tie-groups of the tree m.
IsTieGroupsOf(groups, m) ==
    LET filled == FilledPaths(m)
        inGroup(g) == {groups[g][k] : k \in DOMAIN groups[g]}
    IN /\ \A g \in DOMAIN groups :
            /\ Len(groups[g]) >= 2
            /\ inGroup(g) \subseteq filled
            \* one object per group, every slot of that object in the group
            /\ \A q \in filled :
                   q \in inGroup(g) <=> ParamAt(m, q) = ParamAt(m, groups[g][1])
            \* paths in visit order, no path twice
            /\ \A j, k \in DOMAIN groups[g] :
                   j < k => VisitOf(m, groups[g][j]) < VisitOf(m, groups[g][k])
       \* every object shared by two slots has its group
       /\ \A q, r \in filled :
              (q # r /\ ParamAt(m, q) = ParamAt(m, r))
                  => \E g \in DOMAIN groups : {q, r} \subseteq inGroup(g)
       \* groups in the order their objects are first visited
       /\ \A g, h \in DOMAIN groups :
              g < h => VisitOf(m, groups[g][1]) < VisitOf(m, groups[h][1])

(* ------------------------------------------------------------------ *)
(* Properties.                                                        *)
(* ------------------------------------------------------------------ *)

\* C5: find_shared_parameters returns exactly the tie-groups of the tree it
\* is given: one group per parameter object that two or more non-empty slots
\* reference, holding all and only the paths of those slots in the order the
\* depth-first walk visits them (own slots, then children), the groups in the
\* order their objects are first visited; empty slots, absent children and
\* singly referenced objects appear nowhere.  It holds of the groups the
\* tracker takes at the start of a call and of self.model in every state.
C5_FindSharedParameters ==
    /\ TieCall => IsTieGroupsOf(call.shared_params, call.pre)
    /\ IsTieGroupsOf(find_shared_parameters(model), model)

\* A call whose tree has two tie-groups that interleave in the walk, next to
\* a child that is None.
C5_Witness ==
    /\ TieCall
    /\ call.pre.cls = LightningModule
    /\ \E i \in DOMAIN call.pre.mods : call.pre.mods[i].m = NoneModule
    /\ Len(call.shared_params) = 2
    /\ VisitOf(call.pre, call.shared_params[2][1])
           < VisitOf(call.pre, call.shared_params[1][2])

\* C3: the count guard hands rank_zero_warn a diagnostic exactly when the call
\* gets to its end with the count of parameters before the move different
\* from the count after the move and the hook; it is then one diagnostic,
\* carrying both counts.  The hook runs once, after the move and before the
\* second count.
C3_WarnIffCountsDiffer ==
    GuardCall =>
        LET before == parameters_count(call.pre)
            after == parameters_count(
                on_post_move_to_device(MoveEffect(call.pre, call.mv), call.hook).module)
        IN /\ call.warnings # <<>> <=> (call.outcome = "returned" /\ before # after)
           /\ call.warnings # <<>> =>
                  call.warnings = <<[before |-> before, after |-> after]>>
           /\ call.outcome = "returned" =>
                  /\ SubSeq(call.events, 1, 4) = <<"count", "fn", "hook", "count">>
                  /\ Len(SelectSeq(call.events, LAMBDA e : e = "hook")) = 1
                  /\ call.events = <<"count", "fn", "hook", "count">>
                         \o (IF before # after THEN <<"rank_zero_warn">> ELSE <<>>)

\* The move changed the count and the hook, tying two slots, restored it: no
\* diagnostic.
C3_Witness ==
    /\ GuardCall
    /\ call.outcome = "returned"
    /\ call.hook.kind = "tie"
    /\ parameters_count(call.moved) # parameters_count(call.pre)
    /\ parameters_count(call.post) = parameters_count(call.pre)
    /\ call.warnings = <<>>

\* C4: when the move and the hook complete, the guarded call completes and
\* returns what the move returned, whether or not the counts differ; the guard
\* raises nothing of its own and leaves self.model as the move and the hook
\* left it.
C4_MismatchNotFatal ==
    (GuardCall /\ ~MoveFailed /\ call.hook.kind # "raise") =>
        /\ call.outcome = "returned"
        /\ call.exc = "none"
        /\ call.ret = call.mv.result
        /\ call.post =
               on_post_move_to_device(MoveEffect(call.pre, call.mv), call.hook).module
        /\ model = call.post

\* A call whose counts differ and which returned the move's None.
C4_Witness ==
    /\ GuardCall
    /\ call.outcome = "returned"
    /\ call.warnings # <<>>
    /\ call.mv.result = "None"
    /\ call.ret = "None"

\* C7: when the move fails, both decorators let that failure through and do
\* nothing after it: the guard calls no hook, takes no second count and warns
\* of nothing; the tracker rebinds nothing, so self.model is as the move left
\* it.
C7_MoveFailurePropagates ==
    (call.fn # "none" /\ MoveFailed) =>
        /\ call.outcome = "raised"
        /\ call.exc = "MoveError"
        /\ call.warnings = <<>>
        /\ call.post = MoveEffect(call.pre, call.mv)
        /\ model = call.post
        /\ GuardCall => call.events = <<"count", "fn">>
        /\ TieCall => call.events = <<"find", "fn">>

\* The move broke a tie-group and then failed under the tracker: the group
\* stays broken.
C7_Witness ==
    /\ TieCall
    /\ MoveFailed
    /\ call.mv.kind = "keep"
    /\ call.shared_params # <<>>
    /\ ParamAt(call.post, call.shared_params[1][1])
           # ParamAt(call.post, call.shared_params[1][2])

C6_BrokenPathRaises ==
    LET G == call.shared_params
    IN (/\ TieCall
        /\ ~MoveFailed
        /\ \E g \in DOMAIN G : \E k \in DOMAIN G[g] :
               ~HasSlot(call.moved, PathAfterMove(G[g][k]))) =>
           /\ call.outcome = "raised"
           /\ call.exc = "AttributeError"
           /\ SlotPaths(call.post) \subseteq SlotPaths(call.moved)

\* C6 (amended): the call raises a lookup error exactly when, on the tree after
\* the move, the first path of some group has no slot or the module owning
\* some other path of a group is missing.  A path that is not the first of its
\* group and has lost only its slot is no error: the call returns, having
\* created that slot anew, bound like the rest of the group to the object of
\* the first path.
C6_LookupErrorOrRebound ==
    LET U == Unwrapped(call.moved)
        P == Unwrapped(call.post)
        G == call.shared_params
        owners == ChildPaths(U, <<>>) \cup {<<>>}
        broken == \E g \in DOMAIN G :
                      \/ ~HasSlot(U, G[g][1])
                      \/ \E k \in (DOMAIN G[g]) \ {1} : OwnerPath(G[g][k]) \notin owners
    IN (TieCall /\ ~MoveFailed) =>
           /\ broken <=> (call.outcome = "raised" /\ call.exc = "AttributeError")
           /\ ~broken =>
                  /\ call.outcome = "returned"
                  /\ \A g \in DOMAIN G : \A k \in DOMAIN G[g] :
                         /\ ValueAt(P, G[g][k]) = ParamAt(U, G[g][1])
                         /\ ParamAt(U, G[g][1]) # None => HasSlot(P, G[g][k])

\* The move deleted the slot of a path that is not the first of its group, and
\* the call returned with the slot there again.
C6_Witness ==
    LET U == Unwrapped(call.moved)
        P == Unwrapped(call.post)
        G == call.shared_params
    IN /\ TieCall
       /\ call.outcome = "returned"
       /\ \E g \in DOMAIN G : \E k \in (DOMAIN G[g]) \ {1} :
              ~HasSlot(U, G[g][k]) /\ HasSlot(P, G[g][k])

\* C8 (as stated): the rebinding writes only to the slots of the paths that
\* are not the first of their group: the slot of each first path and every slot
\* in no group hold what the move left there, and the tree has the nodes and
\* slot names the move left; with no shared parameter nothing is rebound.
C8_FrameAndShape ==
    LET G == call.shared_params
        written == {PathAfterMove(q) : q \in NonFirstPaths(G)}
    IN (TieCall /\ ~MoveFailed) =>
           /\ \A q \in SlotPaths(call.moved) \ written :
                  HasSlot(call.post, q) /\ ParamAt(call.post, q) = ParamAt(call.moved, q)
           /\ SlotPaths(call.post) = SlotPaths(call.moved)
           /\ ChildPaths(call.post, <<>>) = ChildPaths(call.moved, <<>>)
           /\ G = <<>> => call.post = call.moved

\* C8 (amended): the rebinding writes only where the recorded paths that are
\* not the first of their group lead on the module the tracker unwraps to.  But
\* for those slots the tree after the call is the tree the move left: same
\* nodes, same slots in the same order holding the same objects, the wrapper
\* (if any) untouched.  No slot is removed; a slot is added only at such a
\* path, when it was not there after the move.  With no shared parameter
\* nothing is rebound.
C8_FrameExceptRecreatedSlots ==
    LET U == Unwrapped(call.moved)
        P == Unwrapped(call.post)
        G == call.shared_params
    IN (TieCall /\ ~MoveFailed) =>
           /\ Rebuild(P, <<>>, NonFirstPaths(G), {}, EmptyAssign)
                  = Rebuild(U, <<>>, NonFirstPaths(G), {}, EmptyAssign)
           /\ SlotPaths(U) \subseteq SlotPaths(P)
           /\ SlotPaths(P) \ SlotPaths(U) \subseteq NonFirstPaths(G)
           /\ ChildPaths(P, <<>>) = ChildPaths(U, <<>>)
           /\ call.post = SelfModelWith(call.moved, P)
           /\ G = <<>> => (call.post = call.moved /\ call.outcome = "returned")

\* The move gave new objects to a group and to a slot of no group; the call
\* rebound the group.
C8_Witness ==
    LET U == Unwrapped(call.moved)
        P == Unwrapped(call.post)
        G == call.shared_params
    IN /\ TieCall
       /\ call.outcome = "returned"
       /\ call.mv.kind = "keep"
       /\ ~IsWrapped(call.pre)
       /\ G # <<>>
       /\ P # U
       /\ \E q \in call.mv.fresh :
              \A g \in DOMAIN G : \A k \in DOMAIN G[g] : G[g][k] # q

\* C1: in every call of the tracker's wrapper whose move keeps the shape of
\* the tree, the groups are those of self.model as the call began, and when
\* the call returns every path of every group resolves on self.model to one
\* object, the one the move left at the first path of the group.
C1_TiesRestored ==
    LET G == find_shared_parameters(call.pre)
    IN (TieCall /\ call.mv.kind = "keep" /\ call.outcome = "returned") =>
           /\ call.shared_params = G
           /\ \A g \in DOMAIN G : \A k \in DOMAIN G[g] :
                  /\ HasSlot(call.post, G[g][k])
                  /\ ParamAt(call.post, G[g][k]) = ParamAt(call.moved, G[g][1])

\* C9: when self.model is wrapped for distributed training, before the call
\* already or by the move, and the move keeps the shape of the wrapped tree,
\* the recorded paths all have their slot on the unwrapped tree, the call
\* returns, and every tie-group of the unwrapped tree is tied again.
C9_WrappedModelRetied ==
    LET U == Unwrapped(call.moved)
        P == Unwrapped(call.post)
        G == find_shared_parameters(Unwrapped(call.pre))
    IN (/\ TieCall
        /\ ~MoveFailed
        /\ call.mv.kind \in {"keep", "wrap"}
        /\ IsWrapped(call.pre) \/ IsWrapped(call.moved)) =>
           /\ \A g \in DOMAIN call.shared_params : \A k \in DOMAIN call.shared_params[g] :
                  HasSlot(U, call.shared_params[g][k])
           /\ call.outcome = "returned"
           /\ \A g \in DOMAIN G : \A k \in DOMAIN G[g] :
                  ParamAt(P, G[g][k]) = ParamAt(P, G[g][1])

\* C10: after a call of the tracker's wrapper whose move keeps the shape and
\* puts a new object in every non-empty slot, self.model references as many
\* parameter objects as before the call and its slots are partitioned by
\* object as before: the same groups in the same order.
C10_PartitionPreserved ==
    (/\ TieCall
     /\ ~MoveFailed
     /\ call.mv.kind = "keep"
     /\ call.mv.fresh = FilledPaths(call.pre)) =>
        /\ parameters_count(call.post) = parameters_count(call.pre)
        /\ find_shared_parameters(call.post) = find_shared_parameters(call.pre)
        /\ \A q, r \in FilledPaths(call.pre) :
               (ParamAt(call.pre, q) = ParamAt(call.pre, r))
                   <=> (ParamAt(call.post, q) = ParamAt(call.post, r))

====
